---- MODULE Spec2Model ----
(***************************************************************************)
(* Slot-aligned scheduler and seen-set reconciliation of the stock bot     *)
(* (src/src/main.py, src/src/chartink.py, src/src/storage.py,              *)
(* src/src/notifier.py, src/src/telegram_notifier.py).                     *)
(*                                                                         *)
(* Time is an integer number of ticks, TicksPerSecond ticks to the second: *)
(* a timestamp is  date * DayLen + time-of-day , day 0 is a Monday.  The   *)
(* tick within a second stands for datetime's microsecond field (0 = the   *)
(* whole second).                                                          *)
(***************************************************************************)
EXTENDS Integers, Sequences, FiniteSets, TLC

\* ------------------------------------------------------------------ bounds
TicksPerSecond == 2
\* pure-function samples: dates 0..MaxSampleDate
MaxSampleDate == 7
\* stock symbols are 1..NumSymbols, ordered as their names sort
NumSymbols == 2
\* run_scan_and_fetch is tried with max_retries in 0..MaxRetries
MaxRetries == 3
\* the live loop is followed through at most MaxIterations iterations
MaxIterations == 3
\* a record found at start holds any text of at most MaxTextLen tokens
MaxTextLen == 2

\* ------------------------------------------------------------ datetime
SecondLen == TicksPerSecond
MinuteLen == 60 * SecondLen
HourLen == 60 * MinuteLen
DayLen == 24 * HourLen

\* datetime.time(hour, minute)
Time(hour, minute) == hour * HourLen + minute * MinuteLen
\* datetime.datetime.combine(date, time)
Combine(date, time) == date * DayLen + time
DateOf(dt) == dt \div DayLen
TimeOf(dt) == dt % DayLen
HourOf(dt) == TimeOf(dt) \div HourLen
MinuteOf(dt) == (TimeOf(dt) \div MinuteLen) % 60
SecondOf(dt) == (TimeOf(dt) \div SecondLen) % 60
\* date.weekday(): Monday = 0 ... Sunday = 6
Weekday(date) == date % 7

trading_start == Time(9, 20)
trading_end == Time(15, 20)

\* mutant: a single "if" in place of the loop
SkipWeekendOnce(date) == IF Weekday(date) >= 5 THEN date + 1 ELSE date

\* the "while target_date.weekday() >= 5" loop of next_trading_start
RECURSIVE SkipWeekend(_)
SkipWeekend(date) ==
    IF Weekday(date) >= 5 THEN SkipWeekend(date + 1) ELSE date

next_trading_start(after) ==
    LET target_date == IF TimeOf(after) > trading_end
                       THEN DateOf(after) + 1
                       ELSE DateOf(after)
    IN Combine(SkipWeekend(target_date), trading_start)

next_slot(current) ==
    IF TimeOf(current) < trading_start
    THEN Combine(DateOf(current), trading_start)
    ELSE IF TimeOf(current) > trading_end
    THEN next_trading_start(current)
    ELSE
      LET minute == MinuteOf(current)
          next_minute == IF minute < 20 THEN 20
                         ELSE IF minute < 35 THEN 35
                         ELSE IF minute < 50 THEN 50
                         ELSE 5
          hour == IF minute < 50 THEN HourOf(current) ELSE HourOf(current) + 1
          next_time == Time(hour, next_minute)
          next_dt == Combine(DateOf(current), next_time)
          \* the "already past this slot" branch
          hour2 == IF next_minute = 50 THEN hour + 1 ELSE hour
          next_minute2 == IF next_minute = 50 THEN 5 ELSE next_minute + 15
          next_time2 == Time(hour2, next_minute2)
      IN IF next_time > trading_end
         THEN next_trading_start(current)
         ELSE IF next_dt <= current
         THEN IF next_time2 > trading_end
              THEN next_trading_start(current)
              ELSE Combine(DateOf(current), next_time2)
         ELSE next_dt

\* ------------------------------------------------------------- chartink
Symbols == 1..NumSymbols

Min(S) == CHOOSE x \in S : \A y \in S : x <= y
\* sorted(list(S))
RECURSIVE Sorted(_)
Sorted(S) == IF S = {} THEN <<>> ELSE <<Min(S)>> \o Sorted(S \ {Min(S)})
\* set(stocks)
ToSet(stocks) == { stocks[i] : i \in DOMAIN stocks }

\* What one attempt (open_scan, sleep, get_stocks) can end in: the sorted
\* list of the symbols on the page, ChartinkMaintenanceError, or another
\* exception (open_scan's timeout).
Maintenance == [kind |-> "maintenance", stocks |-> <<>>]
Failure == [kind |-> "error", stocks |-> <<>>]
Page(S) == [kind |-> "ok", stocks |-> Sorted(S)]
AttemptOutcomes == {Maintenance, Failure} \cup { Page(S) : S \in SUBSET Symbols }

\* mutant: the retry sleep is taken after the last attempt as well
RECURSIVE FetchLoopSleepLast(_, _, _, _)
FetchLoopSleepLast(source, max_retries, attempt, events) ==
    IF attempt >= max_retries
    THEN [stocks |-> <<>>, maintenance |-> TRUE, raised |-> FALSE, events |-> events]
    ELSE LET outcome == source[attempt + 1]
             called == Append(events, "call")
         IN IF outcome.kind = "ok"
            THEN [stocks |-> outcome.stocks, maintenance |-> FALSE,
                  raised |-> FALSE, events |-> called]
            ELSE IF outcome.kind = "error"
            THEN [stocks |-> <<>>, maintenance |-> FALSE,
                  raised |-> TRUE, events |-> called]
            ELSE FetchLoopSleepLast(source, max_retries, attempt + 1,
                                    Append(called, "sleep"))

\* run_scan_and_fetch's "for attempt in range(max_retries)" from `attempt`
\* on; source[k] is what the k-th call ends in, events the calls
\* and retry sleeps made so far.
RECURSIVE FetchLoop(_, _, _, _)
FetchLoop(source, max_retries, attempt, events) ==
    IF attempt >= max_retries
    THEN [stocks |-> <<>>, maintenance |-> TRUE, raised |-> FALSE, events |-> events]
    ELSE LET outcome == source[attempt + 1]
             called == Append(events, "call")
         IN IF outcome.kind = "ok"
            THEN [stocks |-> outcome.stocks, maintenance |-> FALSE,
                  raised |-> FALSE, events |-> called]
            ELSE IF outcome.kind = "error"
            THEN [stocks |-> <<>>, maintenance |-> FALSE,
                  raised |-> TRUE, events |-> called]
            ELSE IF attempt < max_retries - 1
            THEN FetchLoop(source, max_retries, attempt + 1, Append(called, "sleep"))
            ELSE [stocks |-> <<>>, maintenance |-> TRUE, raised |-> FALSE,
                  events |-> called]

run_scan_and_fetch(source, max_retries) == FetchLoop(source, max_retries, 0, <<>>)

Count(events, what) == Cardinality({ i \in DOMAIN events : events[i] = what })

\* run_scan_and_fetch's defaults and the sleeps inside one attempt
default_max_retries == 3
retry_delay == 60
open_scan_sleep == 1
get_stocks_sleep == 2

\* the least time a call of run_scan_and_fetch takes: the two sleeps of
\* every attempt and the retry sleeps
Duration(events) ==
    Count(events, "call") * (open_scan_sleep + get_stocks_sleep) * SecondLen
    + Count(events, "sleep") * retry_delay * SecondLen

\* ---------------------------------------------------------------- main
\* the enabled scans, by name, in configured order
scans == << <<"S", "c", "a", "n", " ", "1">>, <<"S", "c", "a", "n", " ", "2">> >>
ScanNames == { scans[i] : i \in DOMAIN scans }

\* str.lower() and str.replace(" ", "_") on the characters scan names use
Lower(c) == CASE c = "S" -> "s" [] c = "C" -> "c" [] c = "A" -> "a"
              [] c = "N" -> "n" [] OTHER -> c
\* scan_name.replace(" ", "_").lower()
ScanKey(name) == [i \in DOMAIN name |-> Lower(IF name[i] = " " THEN "_" ELSE name[i])]
ScanKeys == { ScanKey(n) : n \in ScanNames }

\* SIMULATION_RUNS and SIMULATION_INTERVAL_SECONDS defaults
simulation_runs == 3
simulation_interval_seconds == 60

\* ------------------------------------------------------------- storage
\* The text of a record is a sequence of tokens: the JSON punctuation, a
\* number, null, one token per string (the symbol's name in quotes) and "?"
\* for a byte that is not UTF-8.  White space and indentation are left out.
Quote(n) == ToString(n)
StringTokens == { Quote(n) : n \in Symbols }
Unquote(t) == CHOOSE n \in Symbols : Quote(n) = t
Tokens == {"[", "]", ",", "{", "}", ":", "#", "null", "?"} \cup StringTokens

\* what json.load builds
JString(t) == [kind |-> "string", str |-> t, items |-> <<>>]
JNumber == [kind |-> "number", str |-> "#", items |-> <<>>]
JNull == [kind |-> "null", str |-> "null", items |-> <<>>]
JArray(items) == [kind |-> "array", str |-> "", items |-> items]
\* an object, by its keys
JObject(keys) == [kind |-> "object", str |-> "", items |-> keys]

ParseFail == [ok |-> FALSE, next |-> 0, val |-> JNull]
Parsed(next, val) == [ok |-> TRUE, next |-> next, val |-> val]
IsAt(text, i, t) == i <= Len(text) /\ text[i] = t

\* the JSON grammar on tokens: the value that starts at text[i], the rest
\* of an array, the rest of an object
RECURSIVE ParseValue(_, _), ParseElements(_, _, _), ParseMembers(_, _, _)
ParseValue(text, i) ==
    IF i > Len(text) THEN ParseFail
    ELSE IF text[i] = "null" THEN Parsed(i + 1, JNull)
    ELSE IF text[i] = "#" THEN Parsed(i + 1, JNumber)
    ELSE IF text[i] \in StringTokens THEN Parsed(i + 1, JString(text[i]))
    ELSE IF text[i] = "["
         THEN IF IsAt(text, i + 1, "]") THEN Parsed(i + 2, JArray(<<>>))
              ELSE ParseElements(text, i + 1, <<>>)
    ELSE IF text[i] = "{"
         THEN IF IsAt(text, i + 1, "}") THEN Parsed(i + 2, JObject(<<>>))
              ELSE ParseMembers(text, i + 1, <<>>)
    ELSE ParseFail
ParseElements(text, i, items) ==
    LET v == ParseValue(text, i)
    IN IF ~v.ok THEN ParseFail
       ELSE IF IsAt(text, v.next, ",")
            THEN ParseElements(text, v.next + 1, Append(items, v.val))
       ELSE IF IsAt(text, v.next, "]")
            THEN Parsed(v.next + 1, JArray(Append(items, v.val)))
       ELSE ParseFail
ParseMembers(text, i, keys) ==
    IF ~(i <= Len(text) /\ text[i] \in StringTokens /\ IsAt(text, i + 1, ":"))
    THEN ParseFail
    ELSE LET v == ParseValue(text, i + 2)
         IN IF ~v.ok THEN ParseFail
            ELSE IF IsAt(text, v.next, ",")
                 THEN ParseMembers(text, v.next + 1, Append(keys, JString(text[i])))
            ELSE IF IsAt(text, v.next, "}")
                 THEN Parsed(v.next + 1, JObject(Append(keys, JString(text[i]))))
            ELSE ParseFail

\* json.load(file): the text is decoded, then parsed to its end
json_load(text) ==
    IF \E i \in DOMAIN text : text[i] = "?"
    THEN [error |-> "UnicodeDecodeError", val |-> JNull]
    ELSE LET v == ParseValue(text, 1)
         IN IF v.ok /\ v.next = Len(text) + 1
            THEN [error |-> "none", val |-> v.val]
            ELSE [error |-> "JSONDecodeError", val |-> JNull]

\* set(data): the elements of an array (lists and dicts cannot be
\* hashed), the keys of an object, the characters of a string; a number
\* or None cannot be iterated.  seen: the symbols in the set; stray: it
\* also holds something that is not a symbol's name
SetOf(val) ==
    CASE val.kind = "array" ->
           IF \E i \in DOMAIN val.items : val.items[i].kind \in {"array", "object"}
           THEN [error |-> "TypeError", seen |-> {}, stray |-> FALSE]
           ELSE [error |-> "none",
                 seen |-> { Unquote(val.items[i].str) :
                              i \in { j \in DOMAIN val.items : val.items[j].kind = "string" } },
                 stray |-> \E i \in DOMAIN val.items : val.items[i].kind # "string"]
      [] val.kind = "object" ->
           [error |-> "none",
            seen |-> { Unquote(val.items[i].str) : i \in DOMAIN val.items },
            stray |-> FALSE]
      [] val.kind = "string" -> [error |-> "none", seen |-> {}, stray |-> TRUE]
      [] OTHER -> [error |-> "TypeError", seen |-> {}, stray |-> FALSE]

\* the elements of an array as json.dump writes them
RECURSIVE Separated(_)
Separated(list) ==
    IF list = <<>> THEN <<>>
    ELSE IF Len(list) = 1 THEN <<Quote(list[1])>>
    ELSE <<Quote(list[1]), ",">> \o Separated(Tail(list))

\* mutant: the elements are written without separators
JsonDumpUnseparated(list) ==
    <<"[">> \o [i \in DOMAIN list |-> Quote(list[i])] \o <<"]">>
\* json.dump(list, file)
JsonDump(list) == <<"[">> \o Separated(list) \o <<"]">>

\* a record: absent, one that cannot be opened, or a text
NoFile == [exists |-> FALSE, readable |-> FALSE, text |-> <<>>]
Unreadable == [exists |-> TRUE, readable |-> FALSE, text |-> <<>>]
TextFile(text) == [exists |-> TRUE, readable |-> TRUE, text |-> text]
JsonFile(list) == TextFile(JsonDump(list))

Loaded(stocks) == [raised |-> FALSE, seen |-> stocks, stray |-> FALSE]
LoadRaised == [raised |-> TRUE, seen |-> {}, stray |-> FALSE]
\* load_seen(path): JSONDecodeError and OSError are caught
load_seen(file) ==
    IF ~file.exists THEN Loaded({})
    ELSE IF ~file.readable THEN Loaded({})
    ELSE LET data == json_load(file.text)
         IN IF data.error = "JSONDecodeError" THEN Loaded({})
            ELSE IF data.error # "none" THEN LoadRaised
            ELSE LET made == SetOf(data.val)
                 IN IF made.error # "none" THEN LoadRaised
                    ELSE [raised |-> FALSE, seen |-> made.seen, stray |-> made.stray]
\* the record a save_seen(stocks, path) that ran to its end leaves
save_seen(stocks) == JsonFile(Sorted(stocks))

\* mutant: the delta is taken against nothing
LiveTargetNoSeen(stocks, seen, notify_all) == Sorted(ToSet(stocks))

\* mutant: ALWAYS_NOTIFY read the wrong way round
LiveTargetSwapped(stocks, seen, notify_all) ==
    IF notify_all THEN Sorted(ToSet(stocks) \ seen) ELSE Sorted(ToSet(stocks))

\* the live loop's target_stocks
LiveTarget(stocks, seen, notify_all) ==
    LET current_set == ToSet(stocks)
        new_stocks == Sorted(current_set \ seen)
    IN IF notify_all THEN Sorted(current_set) ELSE new_stocks

\* the simulation loop's target_stocks
SimTarget(stocks, seen, notify_all) ==
    LET current_set == ToSet(stocks)
        new_stocks == Sorted(current_set \ seen)
    IN IF notify_all THEN Sorted(current_set) ELSE new_stocks

\* mutant: the seen set is replaced by the run's items
LiveSeenReplaced(stocks, seen) == ToSet(stocks)

\* the live loop's "seen |= current_set"
LiveSeenUpdate(stocks, seen) == seen \cup ToSet(stocks)

\* the simulation loop's "seen |= current_set"
SimSeenUpdate(stocks, seen) == seen \cup ToSet(stocks)

\* ---------------------------------------------------------------- state
VARIABLES
    always_notify, simulate, enable_discord, enable_telegram,  \* configuration
    clock,            \* the wall clock, datetime.now(tz)
    pc,               \* where main is: "loop", "scan", "after", "sim", "exit", "crashed"
    now,              \* the live loop's `now` of the current iteration
    branch,           \* what the last live iteration did with `now`
    scan_index,       \* position in "for scan in scans" (1-based)
    run_index,        \* the simulation's run_index
    iterations,       \* history: iterations of the live loop begun
    seen_stocks,      \* scan name -> set of symbols
    files,            \* scan key -> persisted record
    last_reset_date,  \* None (-1) or a date
    batch,            \* what the run of a scan just made handed to the notifiers
    returned,         \* history: scan name -> symbols successful runs returned since the last reset
    day_done,         \* history: the date whose end slot was last run to completion, -1 if none
    cleared,          \* history: daily resets performed since day_done was set
    retries,    \* fetch: the max_retries run_scan_and_fetch is called with
    source,     \* fetch: what each call of the scan source ends in
    fetched,    \* fetch: what run_scan_and_fetch returned, NoReturn before
    arg,        \* SlotClock: the timestamp a function is applied to
    fn,         \* SlotClock: "none", "next_trading_start" or "next_slot"
    result,     \* SlotClock: what the function returned
    origin,     \* slot chain: the window start the chain began at
    applied,    \* slot chain: how many times next_slot has been applied
    saving,     \* storage: the save_seen call under way, NoSave if none
    committed,  \* storage, history: the set the last save that ran to its end wrote
    loaded,     \* storage: what the load_seen call just made returned, and of what
    synced,     \* storage, history: the scans whose last save since the start of
                \* the process ran to its end
    slot_done,  \* live loop, history: the slot boundary whose scans were last started
    slot_runs   \* live loop, history: how many times that boundary's scans were started

clockVars == <<arg, fn, result>>
chainVars == <<origin, applied>>
fetchVars == <<retries, source, fetched>>
storeVars == <<saving, committed, loaded, synced>>
slotVars == <<slot_done, slot_runs>>
configVars == <<always_notify, simulate, enable_discord, enable_telegram>>
mainVars == <<configVars, clock, pc, now, branch, scan_index, run_index, iterations,
              seen_stocks, files, last_reset_date, batch, returned, day_done, cleared,
              storeVars, slotVars>>
vars == <<arg, fn, result, origin, applied, retries, source, fetched, mainVars>>

\* ----------------------------------------------------------- notifiers
Channels == {"discord", "telegram"}
\* the channels whose post fails during one run: none, or the network is down
Outages == {{}, Channels}
\* a run that hands its batch to no sender makes no post
OutagesOf(sent) == IF sent.discord \/ sent.telegram THEN Outages ELSE {{}}

\* mutant: a failed post leaves send_discord as an exception
send_discord_uncaught(posted) == [raised |-> ~posted, delivered |-> posted]
\* send_discord: requests.post and raise_for_status inside try/except Exception
send_discord(posted) == [raised |-> FALSE, delivered |-> posted]
\* send_telegram: the same inside try/except RequestException/Exception
send_telegram(posted) == [raised |-> FALSE, delivered |-> posted]

\* what one pass of a "for scan in scans" body leaves behind: the batch, who
\* it was handed to, whose post failed, and the body's steps in the order made
Quiet(scan_name) ==
    [scan |-> scan_name, stocks |-> <<>>, discord |-> FALSE, telegram |-> FALSE,
     undelivered |-> {}, order |-> <<>>]
\* send_discord_batch and send_telegram_batch
Notify(scan_name, stocks, failing) ==
    LET discord == enable_discord /\ stocks # <<>>
        telegram == enable_telegram /\ stocks # <<>>
    IN [scan |-> scan_name, stocks |-> stocks,
        discord |-> discord, telegram |-> telegram,
        undelivered |->
            { c \in Channels :
                \/ c = "discord" /\ discord /\ ~send_discord("discord" \notin failing).delivered
                \/ c = "telegram" /\ telegram
                   /\ ~send_telegram("telegram" \notin failing).delivered },
        order |-> <<>>]
\* an exception leaves one of the senders
NotifyRaised(stocks, failing) ==
    \/ enable_discord /\ stocks # <<>> /\ send_discord("discord" \notin failing).raised
    \/ enable_telegram /\ stocks # <<>> /\ send_telegram("telegram" \notin failing).raised

\* the steps of the live loop's body for one scan, in the order of its lines
LiveOrder(sent) ==
    (IF sent.discord THEN <<"discord">> ELSE <<>>)
    \o (IF sent.telegram THEN <<"telegram">> ELSE <<>>)
    \o <<"fold", "save">>
\* the steps of the simulation loop's body for one scan
SimOrder(sent) ==
    (IF sent.discord THEN <<"discord">> ELSE <<>>)
    \o (IF sent.telegram THEN <<"telegram">> ELSE <<>>)
    \o <<"fold", "save">>

\* mutant: the maintenance flag is not looked at
LiveRunNoSkip(r, scan_name, failing) ==
    LET seen == seen_stocks[scan_name]
        target == LiveTarget(r.stocks, seen, always_notify)
        sent == Notify(scan_name, target, failing)
    IN [batch |-> [sent EXCEPT !.order = LiveOrder(sent)],
        raised |-> NotifyRaised(target, failing),
        seen |-> LiveSeenUpdate(r.stocks, seen),
        file |-> save_seen(LiveSeenUpdate(r.stocks, seen))]

\* the live loop's body for one scan, after run_scan_and_fetch returned r
LiveRun(r, scan_name, failing) ==
    LET seen == seen_stocks[scan_name]
        target == LiveTarget(r.stocks, seen, always_notify)
        sent == Notify(scan_name, target, failing)
    IN IF r.maintenance
       THEN [batch |-> Quiet(scan_name), raised |-> FALSE, seen |-> seen,
             file |-> files[ScanKey(scan_name)]]
       ELSE [batch |-> [sent EXCEPT !.order = LiveOrder(sent)],
             raised |-> NotifyRaised(target, failing),
             seen |-> LiveSeenUpdate(r.stocks, seen),
             file |-> save_seen(LiveSeenUpdate(r.stocks, seen))]

\* mutant: the simulation keeps only what the run returned
SimRunSeenReplaced(r, scan_name, failing) ==
    LET seen == seen_stocks[scan_name]
        target == SimTarget(r.stocks, seen, always_notify)
        sent == Notify(scan_name, target, failing)
    IN IF r.maintenance
       THEN [batch |-> Quiet(scan_name), raised |-> FALSE, seen |-> seen,
             file |-> files[ScanKey(scan_name)]]
       ELSE [batch |-> [sent EXCEPT !.order = SimOrder(sent)],
             raised |-> NotifyRaised(target, failing),
             seen |-> ToSet(r.stocks),
             file |-> save_seen(ToSet(r.stocks))]

\* the simulation loop's body for one scan, after run_scan_and_fetch returned r
SimRun(r, scan_name, failing) ==
    LET seen == seen_stocks[scan_name]
        target == SimTarget(r.stocks, seen, always_notify)
        sent == Notify(scan_name, target, failing)
    IN IF r.maintenance
       THEN [batch |-> Quiet(scan_name), raised |-> FALSE, seen |-> seen,
             file |-> files[ScanKey(scan_name)]]
       ELSE [batch |-> [sent EXCEPT !.order = SimOrder(sent)],
             raised |-> NotifyRaised(target, failing),
             seen |-> SimSeenUpdate(r.stocks, seen),
             file |-> save_seen(SimSeenUpdate(r.stocks, seen))]

\* ------------------------------------------------------- SlotClock spec
SampleSeconds == {0, 1, 59}
SampleTimes ==
    { Time(h, m) + s * SecondLen + f :
        h \in 0..23, m \in 0..59, s \in SampleSeconds, f \in 0..(TicksPerSecond - 1) }
SampleInstants == { Combine(d, t) : d \in 0..MaxSampleDate, t \in SampleTimes }

NoReturn == [stocks |-> <<>>, maintenance |-> FALSE, raised |-> FALSE, events |-> <<>>]

ClockIdle == arg = 0 /\ fn = "none" /\ result = 0
ChainIdle == origin = 0 /\ applied = 0
FetchIdle == retries = 0 /\ source = <<>> /\ fetched = NoReturn
None == -1
NoSave == [active |-> FALSE, stocks |-> {}, text |-> <<>>, written |-> 0,
           previous |-> NoFile]
NoLoad == [how |-> "none", file |-> NoFile, during |-> NoSave,
           raised |-> FALSE, seen |-> {}, stray |-> FALSE]
NoCommit == [valid |-> FALSE, stocks |-> {}]
StoreIdle == saving = NoSave /\ committed = NoCommit /\ loaded = NoLoad /\ synced = {}
SlotIdle == slot_done = None /\ slot_runs = 0
NoBatch == [scan |-> <<>>, stocks |-> <<>>, discord |-> FALSE, telegram |-> FALSE,
            undelivered |-> {}, order |-> <<>>]
MainIdle ==
    /\ always_notify = FALSE /\ simulate = FALSE
    /\ enable_discord = TRUE /\ enable_telegram = FALSE
    /\ clock = 0 /\ pc = "idle" /\ now = 0 /\ branch = "none"
    /\ scan_index = 1 /\ run_index = 1 /\ iterations = 0
    /\ seen_stocks = [n \in ScanNames |-> {}]
    /\ files = [k \in ScanKeys |-> NoFile]
    /\ last_reset_date = None
    /\ batch = NoBatch
    /\ returned = [n \in ScanNames |-> {}]
    /\ day_done = -1 /\ cleared = 0
    /\ StoreIdle /\ SlotIdle

InitClock == /\ arg \in SampleInstants
             /\ fn = "none"
             /\ result = 0
             /\ ChainIdle
             /\ FetchIdle
             /\ MainIdle

CallNextTradingStart ==
    /\ fn = "none"
    /\ fn' = "next_trading_start"
    /\ result' = next_trading_start(arg)
    /\ UNCHANGED <<arg, chainVars, fetchVars, mainVars>>

CallNextSlot ==
    /\ fn = "none"
    /\ fn' = "next_slot"
    /\ result' = next_slot(arg)
    /\ UNCHANGED <<arg, chainVars, fetchVars, mainVars>>

NextClock == CallNextTradingStart \/ CallNextSlot

SpecClock == InitClock /\ [][NextClock]_vars

\* ------------------------------------------------------ slot chain spec
\* next_slot applied repeatedly, starting from the window start of a date
SlotInterval == 15 * MinuteLen
SlotsPerDay == (trading_end - trading_start) \div SlotInterval

InitChain == /\ \E d \in 0..MaxSampleDate :
                   /\ origin = Combine(d, trading_start)
                   /\ arg = Combine(d, trading_start)
             /\ applied = 0
             /\ fn = "none"
             /\ result = Combine(DateOf(arg), trading_start)
             /\ FetchIdle
             /\ MainIdle

ApplyNextSlot ==
    /\ applied <= SlotsPerDay
    /\ fn' = "next_slot"
    /\ arg' = result
    /\ result' = next_slot(result)
    /\ applied' = applied + 1
    /\ UNCHANGED <<origin, fetchVars, mainVars>>

NextChain == ApplyNextSlot

SpecChain == InitChain /\ [][NextChain]_vars

\* ------------------------------------------------------------ fetch spec
InitFetch == /\ retries \in 0..MaxRetries
             /\ source \in [1..retries -> AttemptOutcomes]
             /\ fetched = NoReturn
             /\ fn = "none"
             /\ arg = 0 /\ result = 0
             /\ ChainIdle
             /\ MainIdle

CallRunScanAndFetch ==
    /\ fn = "none"
    /\ fn' = "run_scan_and_fetch"
    /\ fetched' = run_scan_and_fetch(source, retries)
    /\ UNCHANGED <<arg, result, chainVars, retries, source, mainVars>>

NextFetch == CallRunScanAndFetch

SpecFetch == InitFetch /\ [][NextFetch]_vars

\* -------------------------------------------------------- scheduler spec
\* main() from the load of the seen sets on: the simulation loop or the
\* live loop.  Started on a date in StartDates at a time in StartTimes.
\* Thursday just before the end slot, Friday before the window, Friday on a
\* slot, Saturday
LiveStarts == { Combine(3, Time(15, 19) + 59 * SecondLen), Combine(4, Time(8, 0)),
                Combine(4, Time(15, 5)), Combine(5, Time(8, 0)) }
\* the simulation never reads the clock
SimStart == Combine(5, Time(8, 0))
\* ALWAYS_NOTIFY, ENABLE_DISCORD, ENABLE_TELEGRAM (one of the last two is on)
Configs == { <<FALSE, TRUE, FALSE>>, <<FALSE, FALSE, TRUE>>, <<TRUE, TRUE, TRUE>> }
\* the records found at start: none, or one left by an earlier run of the first scan
StartFiles == { [k \in ScanKeys |-> NoFile],
                [k \in ScanKeys |-> IF k = ScanKey(scans[1])
                                     THEN JsonFile(<<1>>) ELSE NoFile] }
\* What the source does on the successive calls of one run_scan_and_fetch:
\* a page or an exception on the first call, or maintenance on every call
\* (SpecFetch goes through every other mix).
ScanSources ==
    { [k \in 1..default_max_retries |-> IF k = 1 THEN first ELSE Maintenance] :
        first \in AttemptOutcomes }
\* time.sleep returns at the requested instant, within the same second, or later
Oversleep == {0, 1, SecondLen}

InitMain ==
    /\ \E c \in Configs : /\ always_notify = c[1]
                          /\ enable_discord = c[2]
                          /\ enable_telegram = c[3]
    /\ simulate \in BOOLEAN
    /\ clock \in IF simulate THEN {SimStart} ELSE LiveStarts
    /\ files \in StartFiles
    /\ seen_stocks = [n \in ScanNames |->
                        IF files[ScanKey(n)].exists
                        THEN load_seen(files[ScanKey(n)]).seen ELSE {}]
    /\ pc = IF simulate THEN "sim" ELSE "loop"
    /\ now = 0 /\ branch = "none"
    /\ scan_index = 1 /\ run_index = 1 /\ iterations = 0
    /\ last_reset_date = None
    /\ batch = NoBatch
    /\ returned = [n \in ScanNames |-> {}]
    /\ day_done = -1 /\ cleared = 0
    /\ fetched = NoReturn /\ retries = 0 /\ source = <<>>
    /\ ClockIdle /\ ChainIdle /\ StoreIdle /\ SlotIdle

otherVars == <<arg, fn, result, origin, applied, retries, source, storeVars, slotVars>>

\* time.sleep((target - from).total_seconds()) and "continue": a negative
\* length raises ValueError
SleepUntil(target, from) ==
    IF target < from
    THEN pc' = "crashed" /\ clock' = clock
    ELSE pc' = "loop" /\ clock' \in { target + o : o \in Oversleep }

InWindow(t) == ~(TimeOf(t) < trading_start \/ TimeOf(t) > trading_end)
slot_minutes == {5, 20, 35, 50}
\* mutant: the second is not looked at
OnSlotAnySecond(t) == MinuteOf(t) \in slot_minutes
OnSlot(t) == ~(MinuteOf(t) \notin slot_minutes \/ SecondOf(t) # 0)

\* live loop, "if now.weekday() >= 5"
WeekendSleep ==
    /\ pc = "loop"
    /\ iterations < MaxIterations
    /\ iterations' = iterations + 1
    /\ Weekday(DateOf(clock)) >= 5
    /\ now' = clock /\ branch' = "weekend"
    /\ SleepUntil(next_trading_start(clock), clock)
    /\ UNCHANGED <<configVars, scan_index, run_index, seen_stocks, files,
                   last_reset_date, batch, returned, day_done, cleared, fetched, otherVars>>

\* live loop, "if now.time() < trading_start or now.time() > trading_end"
OutsideWindowSleep ==
    /\ pc = "loop"
    /\ iterations < MaxIterations
    /\ iterations' = iterations + 1
    /\ Weekday(DateOf(clock)) < 5
    /\ ~InWindow(clock)
    /\ now' = clock /\ branch' = "outside"
    /\ SleepUntil(next_trading_start(clock), clock)
    /\ UNCHANGED <<configVars, scan_index, run_index, seen_stocks, files,
                   last_reset_date, batch, returned, day_done, cleared, fetched, otherVars>>

\* live loop, "if now.minute not in slot_minutes or now.second != 0"
WaitForSlot ==
    /\ pc = "loop"
    /\ iterations < MaxIterations
    /\ iterations' = iterations + 1
    /\ Weekday(DateOf(clock)) < 5
    /\ InWindow(clock)
    /\ ~OnSlot(clock)
    /\ now' = clock /\ branch' = "wait"
    /\ SleepUntil(next_slot(clock), clock)
    /\ UNCHANGED <<configVars, scan_index, run_index, seen_stocks, files,
                   last_reset_date, batch, returned, day_done, cleared, fetched, otherVars>>

\* live loop, "Execute all enabled scans at this slot"
\* the slot boundary an instant of a slot minute belongs to: its date, hour and minute
SlotOf(t) == t - (t % MinuteLen)

StartSlot ==
    /\ pc = "loop"
    /\ iterations < MaxIterations
    /\ iterations' = iterations + 1
    /\ Weekday(DateOf(clock)) < 5
    /\ InWindow(clock)
    /\ OnSlot(clock)
    /\ now' = clock /\ branch' = "run"
    /\ pc' = "scan" /\ scan_index' = 1
    /\ slot_done' = SlotOf(clock)
    /\ slot_runs' = IF SlotOf(clock) = slot_done THEN slot_runs + 1 ELSE 1
    /\ UNCHANGED <<configVars, clock, run_index, seen_stocks, files,
                   last_reset_date, batch, returned, day_done, cleared, fetched,
                   arg, fn, result, origin, applied, retries, source, storeVars>>

IsEndSlot(t) == TimeOf(t) >= trading_end /\ TimeOf(t) < trading_end + SecondLen

\* live loop, one pass of "for scan in scans"
RunScan ==
    /\ pc = "scan"
    /\ \E r \in { run_scan_and_fetch(src, default_max_retries) : src \in ScanSources } :
         \E done \in { LiveRun(r, scans[scan_index], failing) :
                          failing \in OutagesOf(LiveRun(r, scans[scan_index], {}).batch) } :
         LET scan_name == scans[scan_index]
             last == scan_index = Len(scans)
         IN /\ fetched' = r
            /\ clock' = clock + Duration(r.events)
            /\ IF r.raised \/ done.raised
               THEN /\ pc' = "crashed"
                    /\ batch' = IF done.raised THEN done.batch ELSE batch
                    /\ UNCHANGED <<scan_index, seen_stocks, files, returned,
                                   day_done, cleared>>
               ELSE /\ pc' = IF last THEN "after" ELSE "scan"
                    /\ scan_index' = IF last THEN scan_index ELSE scan_index + 1
                    /\ day_done' = IF last /\ IsEndSlot(now) THEN DateOf(now) ELSE day_done
                    /\ cleared' = IF last /\ IsEndSlot(now) THEN 0 ELSE cleared
                    /\ batch' = done.batch
                    /\ seen_stocks' = [seen_stocks EXCEPT ![scan_name] = done.seen]
                    /\ files' = [files EXCEPT ![ScanKey(scan_name)] = done.file]
                    /\ returned' = [returned EXCEPT ![scan_name] =
                                      IF r.maintenance THEN @ ELSE @ \cup ToSet(r.stocks)]
    /\ UNCHANGED <<configVars, now, branch, run_index, iterations, last_reset_date, otherVars>>

\* mutant: the reset is made whatever last_reset_date holds
DailyResetUnguarded(current_date, last, seen, recs) ==
    [seen_stocks |-> [n \in DOMAIN seen |-> {}],
     files |-> [k \in DOMAIN recs |->
                  IF \E n \in DOMAIN seen : ScanKey(n) = k
                  THEN save_seen({}) ELSE recs[k]],
     last_reset_date |-> current_date,
     reset |-> TRUE]

\* live loop, the body of "if nxt.time() > trading_end": every seen set is
\* emptied and saved, once per date
DailyReset(current_date, last, seen, recs) ==
    IF current_date # last
    THEN [seen_stocks |-> [n \in DOMAIN seen |-> {}],
          files |-> [k \in DOMAIN recs |->
                       IF \E n \in DOMAIN seen : ScanKey(n) = k
                       THEN save_seen({}) ELSE recs[k]],
          last_reset_date |-> current_date,
          reset |-> TRUE]
    ELSE [seen_stocks |-> seen, files |-> recs, last_reset_date |-> last,
          reset |-> FALSE]

\* live loop, "Determine next slot sleep": the daily reset or the sleep.
\* The for loop is left: its locals (stocks, maintenance) are dead and the
\* record of what the last run sent is dropped.
\* mutant: the loop goes round again without sleeping until the next slot
AfterSlotNoSleep ==
    /\ pc = "after"
    /\ LET nxt == next_slot(clock)
           done == DailyReset(DateOf(clock), last_reset_date, seen_stocks, files)
       IN IF TimeOf(nxt) > trading_end
          THEN /\ pc' = "loop" /\ clock' = clock
               /\ seen_stocks' = done.seen_stocks
               /\ files' = done.files
               /\ last_reset_date' = done.last_reset_date
               /\ returned' = IF done.reset THEN [n \in DOMAIN returned |-> {}]
                              ELSE returned
               /\ cleared' = IF done.reset THEN cleared + 1 ELSE cleared
          ELSE /\ pc' = "loop" /\ clock' = clock
               /\ UNCHANGED <<seen_stocks, files, last_reset_date, returned, cleared>>
    /\ batch' = NoBatch /\ fetched' = NoReturn
    /\ UNCHANGED <<configVars, now, branch, scan_index, run_index, iterations,
                   day_done, otherVars>>

AfterSlot ==
    /\ pc = "after"
    /\ LET nxt == next_slot(clock)
           done == DailyReset(DateOf(clock), last_reset_date, seen_stocks, files)
       IN IF TimeOf(nxt) > trading_end
          THEN /\ pc' = "loop" /\ clock' = clock
               /\ seen_stocks' = done.seen_stocks
               /\ files' = done.files
               /\ last_reset_date' = done.last_reset_date
               /\ returned' = IF done.reset THEN [n \in DOMAIN returned |-> {}]
                              ELSE returned
               /\ cleared' = IF done.reset THEN cleared + 1 ELSE cleared
          ELSE /\ SleepUntil(nxt, clock)
               /\ UNCHANGED <<seen_stocks, files, last_reset_date, returned, cleared>>
    /\ batch' = NoBatch /\ fetched' = NoReturn
    /\ UNCHANGED <<configVars, now, branch, scan_index, run_index, iterations,
                   day_done, otherVars>>

\* simulation, one pass of "for scan in scans" and, after the last scan of
\* a run, the wait before the next run or the return
SimRunScan ==
    /\ pc = "sim"
    /\ \E r \in { run_scan_and_fetch(src, default_max_retries) : src \in ScanSources } :
         \E done \in { SimRun(r, scans[scan_index], failing) :
                          failing \in OutagesOf(SimRun(r, scans[scan_index], {}).batch) } :
         LET scan_name == scans[scan_index]
             last == scan_index = Len(scans)
             wait == last /\ run_index < simulation_runs
         IN /\ fetched' = r
            /\ IF r.raised \/ done.raised
               THEN /\ pc' = "crashed"
                    /\ clock' = clock + Duration(r.events)
                    /\ batch' = IF done.raised THEN done.batch ELSE batch
                    /\ UNCHANGED <<scan_index, run_index, seen_stocks, files, returned>>
               ELSE /\ pc' = IF last /\ ~wait THEN "exit" ELSE "sim"
                    /\ scan_index' = IF last THEN (IF wait THEN 1 ELSE scan_index)
                                     ELSE scan_index + 1
                    /\ run_index' = IF wait THEN run_index + 1 ELSE run_index
                    /\ clock' = IF wait
                                THEN clock + Duration(r.events)
                                     + simulation_interval_seconds * SecondLen
                                ELSE clock + Duration(r.events)
                    /\ batch' = done.batch
                    /\ seen_stocks' = [seen_stocks EXCEPT ![scan_name] = done.seen]
                    /\ files' = [files EXCEPT ![ScanKey(scan_name)] = done.file]
                    /\ returned' = [returned EXCEPT ![scan_name] =
                                      IF r.maintenance THEN @ ELSE @ \cup ToSet(r.stocks)]
    /\ UNCHANGED <<configVars, now, branch, iterations, last_reset_date, day_done, cleared,
                   otherVars>>

Next == \/ WeekendSleep
        \/ OutsideWindowSleep
        \/ WaitForSlot
        \/ StartSlot
        \/ RunScan
        \/ AfterSlot
        \/ SimRunScan

Spec == InitMain /\ [][Next]_vars

\* ------------------------------------------------------------ slot spec
\* The live loop with the time the scans of a slot take left open: the source
\* answers every scan with an empty page at its first call, and the driver
\* takes whatever time it takes to do so.  The loop's own steps are the
\* actions of Spec.
SlotStarts == { Combine(3, Time(14, 49) + 59 * SecondLen), Combine(3, trading_end),
                Combine(4, Time(8, 0)), Combine(5, Time(8, 0)) }
EmptySource == [k \in 1..default_max_retries |-> IF k = 1 THEN Page({}) ELSE Maintenance]
\* the slot boundary that follows instant t, on the quarter-hour grid of slot_minutes
BoundaryAfter(t) == t - ((t - 5 * MinuteLen) % SlotInterval) + SlotInterval
\* When the for loop over the scans, entered at t, is left: at once (the
\* wall clock read again shows the same instant), after the sleeps of
\* run_scan_and_fetch alone, or around one of the next two slot boundaries.
SlotEnds(t) ==
    {t, t + Len(scans) * Duration(run_scan_and_fetch(EmptySource, default_max_retries).events)}
    \cup { b + o : b \in {BoundaryAfter(t), BoundaryAfter(t) + SlotInterval},
                   o \in {-1, 0, 1} }

InitSlots ==
    /\ always_notify = FALSE /\ simulate = FALSE
    /\ enable_discord = TRUE /\ enable_telegram = FALSE
    /\ clock \in SlotStarts
    /\ files = [k \in ScanKeys |-> NoFile]
    /\ seen_stocks = [n \in ScanNames |-> {}]
    /\ pc = "loop"
    /\ now = 0 /\ branch = "none"
    /\ scan_index = 1 /\ run_index = 1 /\ iterations = 0
    /\ last_reset_date = None
    /\ batch = NoBatch
    /\ returned = [n \in ScanNames |-> {}]
    /\ day_done = -1 /\ cleared = 0
    /\ fetched = NoReturn /\ retries = 0 /\ source = <<>>
    /\ ClockIdle /\ ChainIdle /\ StoreIdle /\ SlotIdle

\* for scan in scans: every scan is run, folded and saved; none has anything to report
RunSlotScans ==
    /\ pc = "scan"
    /\ \E r \in {run_scan_and_fetch(EmptySource, default_max_retries)} :
         /\ fetched' = r
         /\ batch' = LiveRun(r, scans[Len(scans)], {}).batch
         /\ seen_stocks' = [n \in ScanNames |-> LiveRun(r, n, {}).seen]
         /\ files' = [k \in ScanKeys |->
                        LiveRun(r, CHOOSE n \in ScanNames : ScanKey(n) = k, {}).file]
    /\ clock' \in SlotEnds(clock)
    /\ pc' = "after" /\ scan_index' = Len(scans)
    /\ day_done' = IF IsEndSlot(now) THEN DateOf(now) ELSE day_done
    /\ cleared' = IF IsEndSlot(now) THEN 0 ELSE cleared
    /\ UNCHANGED <<configVars, now, branch, run_index, iterations, last_reset_date,
                   returned, otherVars>>

NextSlots == \/ WeekendSleep
             \/ OutsideWindowSleep
             \/ WaitForSlot
             \/ StartSlot
             \/ RunSlotScans
             \/ AfterSlot

SpecSlots == InitSlots /\ [][NextSlots]_vars

\* ------------------------------------------------------------ write spec
\* The runs and resets of one process with saves that can fail: save_seen
\* catches the OSError of the open or of a write, and the record is then as
\* the failure left it.  Here branch tells what the last run's save did:
\* "saved", "failed", or "skipped" when the run made none.

\* mutant: a write that was cut short is not noticed
SaveOutcomesUnreported(stocks, old) ==
    {[file |-> save_seen(stocks), failed |-> FALSE, raised |-> FALSE],
     [file |-> old, failed |-> TRUE, raised |-> FALSE]}
    \cup { [file |-> TextFile(SubSeq(save_seen(stocks).text, 1, k)),
            failed |-> FALSE, raised |-> FALSE] :
             k \in {0, Len(save_seen(stocks).text) - 1} }

\* mutant: the OSError is not caught
SaveOutcomesUncaught(stocks, old) ==
    {[file |-> save_seen(stocks), failed |-> FALSE, raised |-> FALSE],
     [file |-> old, failed |-> TRUE, raised |-> TRUE]}
    \cup { [file |-> TextFile(SubSeq(save_seen(stocks).text, 1, k)),
            failed |-> TRUE, raised |-> TRUE] :
             k \in {0, Len(save_seen(stocks).text) - 1} }

\* save_seen on a record that holds old: everything is written; or the
\* open raises OSError and the record stays; or a write raises OSError
\* after the open has emptied the record, before the first piece or
\* before the last one has reached it
SaveOutcomes(stocks, old) ==
    {[file |-> save_seen(stocks), failed |-> FALSE, raised |-> FALSE],
     [file |-> old, failed |-> TRUE, raised |-> FALSE]}
    \cup { [file |-> TextFile(SubSeq(save_seen(stocks).text, 1, k)),
            failed |-> TRUE, raised |-> FALSE] :
             k \in {0, Len(save_seen(stocks).text) - 1} }

InitWrite ==
    /\ always_notify = FALSE /\ simulate = FALSE
    /\ enable_discord = TRUE /\ enable_telegram = FALSE
    /\ files \in StartFiles
    /\ seen_stocks = [n \in ScanNames |->
                        IF files[ScanKey(n)].exists
                        THEN load_seen(files[ScanKey(n)]).seen ELSE {}]
    /\ pc = "write" /\ clock = 0 /\ now = 0 /\ branch = "none"
    /\ scan_index = 1 /\ run_index = 1 /\ iterations = 0
    /\ last_reset_date = None
    /\ batch = NoBatch
    /\ returned = [n \in ScanNames |-> {}]
    /\ day_done = -1 /\ cleared = 0
    /\ fetched = NoReturn /\ retries = 0 /\ source = <<>>
    /\ ClockIdle /\ ChainIdle /\ StoreIdle /\ SlotIdle

writeRest == <<configVars, clock, now, run_index, last_reset_date, returned, day_done,
               cleared, arg, fn, result, origin, applied, retries, source,
               saving, committed, loaded, slotVars>>

\* one pass of the body of "for scan in scans", for the scan whose turn it is
RunWrite ==
    /\ pc = "write"
    /\ iterations < MaxIterations
    /\ iterations' = iterations + 1
    /\ \E r \in { run_scan_and_fetch(src, default_max_retries) : src \in ScanSources } :
         \E done \in {LiveRun(r, scans[scan_index], {})} :
         \E out \in SaveOutcomes(done.seen, files[ScanKey(scans[scan_index])]) :
           LET scan_name == scans[scan_index]
           IN /\ fetched' = r
              /\ IF r.raised
                 THEN /\ pc' = "crashed"
                      /\ UNCHANGED <<batch, seen_stocks, files, synced, branch>>
                 ELSE IF r.maintenance
                 THEN /\ batch' = done.batch /\ branch' = "skipped"
                      /\ UNCHANGED <<pc, seen_stocks, files, synced>>
                 ELSE /\ batch' = done.batch
                      /\ seen_stocks' = [seen_stocks EXCEPT ![scan_name] = done.seen]
                      /\ files' = [files EXCEPT ![ScanKey(scan_name)] = out.file]
                      /\ synced' = IF out.failed THEN synced \ {scan_name}
                                    ELSE synced \cup {scan_name}
                      /\ branch' = IF out.failed THEN "failed" ELSE "saved"
                      /\ pc' = IF out.raised THEN "crashed" ELSE "write"
    /\ scan_index' = IF scan_index = Len(scans) THEN 1 ELSE scan_index + 1
    /\ UNCHANGED writeRest

\* the daily reset block entered directly: every seen set is emptied and saved
ResetWrite ==
    /\ pc = "write"
    /\ iterations < MaxIterations
    /\ iterations' = iterations + 1
    /\ \E outs \in [ScanNames -> {"written", "refused", "cut"}] :
         LET out(n) == CHOOSE o \in SaveOutcomes({}, files[ScanKey(n)]) :
                          \/ outs[n] = "written" /\ ~o.failed
                          \/ outs[n] = "refused" /\ o.failed /\ o.file = files[ScanKey(n)]
                          \/ outs[n] = "cut" /\ o.failed /\ o.file = TextFile(<<>>)
         IN /\ seen_stocks' = [n \in ScanNames |-> {}]
            /\ files' = [k \in ScanKeys |->
                           out(CHOOSE n \in ScanNames : ScanKey(n) = k).file]
            /\ synced' = { n \in ScanNames : ~out(n).failed }
            /\ pc' = IF \E n \in ScanNames : out(n).raised THEN "crashed" ELSE "write"
    /\ batch' = NoBatch /\ fetched' = NoReturn /\ branch' = "reset"
    /\ UNCHANGED <<scan_index, writeRest>>

NextWrite == RunWrite \/ ResetWrite

SpecWrite == InitWrite /\ [][NextWrite]_vars

\* ------------------------------------------------------------ names spec
\* Two scans configured under any two different names (SCAN_NAME_1,
\* SCAN_NAME_2), their runs in any order, and the restart of the process.
\* The seen sets are keyed by name, the records by ScanKey(name).  Here
\* returned[n] holds what the runs of scan n folded and saved so far.
NamePool == { <<"S", "c", "a", "n", " ", "1">>, <<"S", "c", "a", "n", " ", "2">>,
              <<"s", "c", "a", "n", "_", "1">>, <<"S", "C", "A", "N", " ", "1">> }
NamePairs == { pair \in SUBSET NamePool : Cardinality(pair) = 2 }

InitNames ==
    /\ \E pair \in NamePairs :
         /\ seen_stocks = [n \in pair |-> {}]
         /\ returned = [n \in pair |-> {}]
         /\ files = [k \in { ScanKey(n) : n \in pair } |-> NoFile]
    /\ always_notify = FALSE /\ simulate = FALSE
    /\ enable_discord = TRUE /\ enable_telegram = FALSE
    /\ pc = "names" /\ clock = 0 /\ now = 0 /\ branch = "none"
    /\ scan_index = 1 /\ run_index = 1 /\ iterations = 0
    /\ last_reset_date = None
    /\ batch = NoBatch
    /\ day_done = -1 /\ cleared = 0
    /\ fetched = NoReturn /\ retries = 0 /\ source = <<>>
    /\ ClockIdle /\ ChainIdle /\ StoreIdle /\ SlotIdle

namesRest == <<configVars, clock, now, scan_index, run_index, last_reset_date, day_done,
               cleared, otherVars>>

\* one pass of the body of "for scan in scans", for either scan
RunNamed ==
    /\ pc = "names"
    /\ iterations < MaxIterations
    /\ iterations' = iterations + 1
    /\ \E scan_name \in DOMAIN seen_stocks :
         \E r \in { run_scan_and_fetch(src, default_max_retries) : src \in ScanSources } :
         \E done \in {LiveRun(r, scan_name, {})} :
           /\ fetched' = r
           /\ IF r.raised
              THEN /\ pc' = "crashed"
                   /\ UNCHANGED <<batch, seen_stocks, files, returned>>
              ELSE /\ pc' = "names"
                   /\ batch' = done.batch
                   /\ seen_stocks' = [seen_stocks EXCEPT ![scan_name] = done.seen]
                   /\ files' = [files EXCEPT ![ScanKey(scan_name)] = done.file]
                   /\ returned' = [returned EXCEPT ![scan_name] =
                                     IF r.maintenance THEN @ ELSE @ \cup ToSet(r.stocks)]
    /\ branch' = "run"
    /\ UNCHANGED namesRest

\* the process is started again: main, "Load separate seen stocks for each scan"
RestartNamed ==
    /\ pc = "names" /\ branch = "run"
    /\ seen_stocks' = [n \in DOMAIN seen_stocks |->
                         IF files[ScanKey(n)].exists
                         THEN load_seen(files[ScanKey(n)]).seen ELSE {}]
    /\ branch' = "restart"
    /\ batch' = NoBatch /\ fetched' = NoReturn
    /\ UNCHANGED <<pc, iterations, files, returned, namesRest>>

NextNames == RunNamed \/ RestartNamed

SpecNames == InitNames /\ [][NextNames]_vars

\* ------------------------------------------------------------ reset spec
\* The reset path of the live loop (main.py, "End of trading day - perform
\* daily reset") entered directly, any number of times on a date, with
\* successful runs and the passing of days in between.
ResetStarts == { Combine(d, trading_end) : d \in 0..1 }

InitReset ==
    /\ clock \in ResetStarts
    /\ seen_stocks \in [ScanNames -> SUBSET Symbols]
    /\ files = [k \in ScanKeys |->
                  save_seen(seen_stocks[CHOOSE n \in ScanNames : ScanKey(n) = k])]
    /\ last_reset_date = None
    /\ pc = "reset" /\ now = 0 /\ branch = "none"
    /\ always_notify = FALSE /\ simulate = FALSE
    /\ enable_discord = TRUE /\ enable_telegram = FALSE
    /\ scan_index = 1 /\ run_index = 1 /\ iterations = 0
    /\ batch = NoBatch
    /\ returned = [n \in ScanNames |-> {}]
    /\ day_done = -1 /\ cleared = 0
    /\ ClockIdle /\ ChainIdle /\ FetchIdle /\ StoreIdle /\ SlotIdle

\* the reset path is reached: branch and now keep what it did and when
ReachReset ==
    /\ pc = "reset"
    /\ iterations < MaxIterations
    /\ iterations' = iterations + 1
    /\ LET done == DailyReset(DateOf(clock), last_reset_date, seen_stocks, files)
       IN /\ seen_stocks' = done.seen_stocks
          /\ files' = done.files
          /\ last_reset_date' = done.last_reset_date
          /\ branch' = IF done.reset THEN "cleared" ELSE "kept"
          /\ cleared' = IF done.reset THEN cleared + 1 ELSE cleared
    /\ now' = clock
    /\ UNCHANGED <<configVars, clock, pc, scan_index, run_index, batch, returned,
                   day_done, fetched, otherVars>>

\* a successful run of one scan folds what it found into the seen set
FoldRun ==
    /\ pc = "reset"
    /\ \E n \in ScanNames : \E found \in SUBSET Symbols :
         LET seen == LiveSeenUpdate(Sorted(found), seen_stocks[n])
         IN /\ seen # seen_stocks[n]
            /\ seen_stocks' = [seen_stocks EXCEPT ![n] = seen]
            /\ files' = [files EXCEPT ![ScanKey(n)] = save_seen(seen)]
    /\ UNCHANGED <<configVars, clock, pc, now, branch, scan_index, run_index,
                   iterations, last_reset_date, batch, returned, day_done, cleared,
                   fetched, otherVars>>

\* the next calendar date begins: cleared counts the resets of one date
DatePasses ==
    /\ pc = "reset"
    /\ DateOf(clock) < MaxSampleDate
    /\ clock' = clock + DayLen
    /\ cleared' = 0
    /\ UNCHANGED <<configVars, pc, now, branch, scan_index, run_index, iterations,
                   seen_stocks, files, last_reset_date, batch, returned, day_done,
                   fetched, otherVars>>

NextReset == ReachReset \/ FoldRun \/ DatePasses

SpecReset == InitReset /\ [][NextReset]_vars

\* ------------------------------------------------------------ store spec
\* One scan's record and the process that keeps it: the load at start, the
\* saves a reconciliation or a reset makes (the file is opened for writing,
\* which empties it, written piece by piece and closed), a reader of the
\* record outside the process, and the end of the process at any point.
StoreScan == scans[1]
StoreKey == ScanKey(StoreScan)
Texts == UNION { [1..n -> Tokens] : n \in 0..MaxTextLen }
StartRecords ==
    {NoFile, Unreadable} \cup { TextFile(t) : t \in Texts }
    \cup { save_seen(stocks) : stocks \in SUBSET Symbols }

InitStore ==
    /\ \E rec \in StartRecords :
         /\ files = [k \in ScanKeys |-> IF k = StoreKey THEN rec ELSE NoFile]
         /\ committed = IF \E stocks \in SUBSET Symbols : rec = save_seen(stocks)
                        THEN [valid |-> TRUE, stocks |-> load_seen(rec).seen]
                        ELSE NoCommit
    /\ saving = NoSave /\ loaded = NoLoad /\ synced = {}
    /\ seen_stocks = [n \in ScanNames |-> {}]
    /\ pc = "down" /\ clock = 0 /\ now = 0 /\ branch = "none"
    /\ always_notify = FALSE /\ simulate = FALSE
    /\ enable_discord = TRUE /\ enable_telegram = FALSE
    /\ scan_index = 1 /\ run_index = 1 /\ iterations = 0
    /\ last_reset_date = None
    /\ batch = NoBatch
    /\ returned = [n \in ScanNames |-> {}]
    /\ day_done = -1 /\ cleared = 0
    /\ ClockIdle /\ ChainIdle /\ FetchIdle /\ SlotIdle

storeRest == <<configVars, clock, now, branch, scan_index, run_index, last_reset_date,
               batch, returned, day_done, cleared, fetched, arg, fn, result, origin,
               applied, retries, source, slotVars, synced>>

LoadOf(how, file, during) ==
    LET r == load_seen(file)
    IN [how |-> how, file |-> file, during |-> during,
        raised |-> r.raised, seen |-> r.seen, stray |-> r.stray]

\* main, "Load separate seen stocks for each scan"
StartProcess ==
    /\ pc = "down"
    /\ LET r == LoadOf("start", files[StoreKey], NoSave)
       IN /\ loaded' = r
          /\ pc' = IF r.raised THEN "crashed" ELSE "store"
          /\ seen_stocks' = [seen_stocks EXCEPT ![StoreScan] = r.seen]
    /\ UNCHANGED <<files, saving, committed, iterations, storeRest>>

\* a run folds what it found into the seen set, or the reset empties it,
\* and save_seen opens the record for writing: the open fails, or the
\* record is emptied
BeginSave ==
    /\ pc = "store"
    /\ iterations < MaxIterations
    /\ iterations' = iterations + 1
    /\ \E found \in SUBSET Symbols : \E reset \in BOOLEAN : \E opened \in BOOLEAN :
         LET stocks == IF reset THEN {}
                       ELSE LiveSeenUpdate(Sorted(found), seen_stocks[StoreScan])
         IN /\ seen_stocks' = [seen_stocks EXCEPT ![StoreScan] = stocks]
            /\ IF opened
               THEN /\ saving' = [active |-> TRUE, stocks |-> stocks,
                                  text |-> JsonDump(Sorted(stocks)), written |-> 0,
                                  previous |-> files[StoreKey]]
                    /\ files' = [files EXCEPT ![StoreKey] = TextFile(<<>>)]
                    /\ pc' = "saving"
                    /\ UNCHANGED committed
               ELSE /\ committed' = NoCommit
                    /\ UNCHANGED <<saving, files, pc>>
    /\ loaded' = NoLoad
    /\ UNCHANGED storeRest

\* json.dump: the next piece of the text reaches the record
WriteChunk ==
    /\ pc = "saving"
    /\ saving.written < Len(saving.text)
    /\ saving' = [saving EXCEPT !.written = @ + 1]
    /\ files' = [files EXCEPT ![StoreKey] =
                   TextFile(SubSeq(saving.text, 1, saving.written + 1))]
    /\ loaded' = NoLoad
    /\ UNCHANGED <<pc, seen_stocks, committed, iterations, storeRest>>

\* the with block is left: whatever was not yet written is, and the
\* record is closed
FinishSave ==
    /\ pc = "saving"
    /\ files' = [files EXCEPT ![StoreKey] = TextFile(saving.text)]
    /\ committed' = [valid |-> TRUE, stocks |-> saving.stocks]
    /\ saving' = NoSave /\ loaded' = NoLoad
    /\ pc' = "store"
    /\ UNCHANGED <<seen_stocks, iterations, storeRest>>

\* a write raises OSError: it is caught and the record stays as it is
FailSave ==
    /\ pc = "saving"
    /\ committed' = NoCommit
    /\ saving' = NoSave /\ loaded' = NoLoad
    /\ pc' = "store"
    /\ UNCHANGED <<files, seen_stocks, iterations, storeRest>>

\* load_seen called on the record from outside the process
Read ==
    /\ pc \in {"store", "saving"}
    /\ loaded' = LoadOf("reader", files[StoreKey], saving)
    /\ UNCHANGED <<pc, files, seen_stocks, saving, committed, iterations, storeRest>>

\* the process is ended where it stands; the record keeps what reached it
Terminate ==
    /\ pc \in {"store", "saving"}
    /\ pc' = "down"
    /\ saving' = NoSave /\ loaded' = NoLoad
    /\ seen_stocks' = [seen_stocks EXCEPT ![StoreScan] = {}]
    /\ UNCHANGED <<files, committed, iterations, storeRest>>

NextStore == \/ StartProcess
             \/ BeginSave
             \/ WriteChunk
             \/ FinishSave
             \/ FailSave
             \/ Read
             \/ Terminate

SpecStore == InitStore /\ [][NextStore]_vars

\* ================================================================ claims

\* a run of scans[scan_index] is made in this step (live or simulation) and
\* returns to the loop
RanScan == pc \in {"scan", "sim"} /\ pc' # "crashed"
RanScanOk == RanScan /\ ~fetched'.maintenance
RanScanMaintenance == RanScan /\ fetched'.maintenance
StrictlyIncreasing(list) ==
    \A i \in DOMAIN list : \A j \in DOMAIN list : i < j => list[i] < list[j]

\* C1 (as claimed): the live scheduler performs the daily reset exactly once
\* per trading day: when a day's end slot has been run, every seen set is
\* cleared exactly once before the first slot of the next trading day runs.
C1_DailyResetOncePerTradingDay ==
    /\ cleared <= 1
    /\ (pc = "scan" /\ day_done # None /\ DateOf(now) > day_done) => cleared = 1

\* C2 (as claimed): next_slot applied repeatedly from the window start
\* visits start, start+I, ..., end once each in increasing order, and
\* applied to end it yields the window start of a later date that is
\* neither Saturday nor Sunday.
C2_ChainVisitsEverySlotThenNextDay ==
    /\ applied <= SlotsPerDay => result = origin + applied * SlotInterval
    /\ applied = SlotsPerDay + 1 =>
          /\ TimeOf(result) = trading_start
          /\ DateOf(result) > DateOf(origin)
          /\ Weekday(DateOf(result)) < 5

\* C3 (as claimed): on a weekday an iteration whose `now` lies in the
\* boundary second of the end slot (15:20:00 plus any fraction of a second)
\* runs the scans of that slot; it is not taken as outside the window.
C3_EndSlotSecondRuns ==
    (branch # "none" /\ Weekday(DateOf(now)) < 5 /\ IsEndSlot(now)) => branch = "run"

\* C4: with always_notify off, an item a successful run of a scan returned
\* is in the notification batch of no later run of that scan before a
\* daily reset.
C4_NotifiedOncePerScan ==
    [][(RanScan /\ ~always_notify) =>
          ToSet(batch'.stocks) \cap returned[scans[scan_index]] = {}]_vars
C4_Witness ==
    /\ ~always_notify
    /\ batch.scan = scans[2]
    /\ fetched.stocks = <<1, 2>>
    /\ batch.stocks = <<2>>

\* C5: the batch of a successful run is sorted and duplicate-free and holds
\* exactly the returned items not in the scan's seen set as it was before
\* the run (always_notify off) or exactly the returned items (always_notify
\* on); it goes to the enabled notifiers, and to none when it is empty.
C5_BatchIsSortedDelta ==
    [][RanScanOk =>
          LET items == ToSet(fetched'.stocks)
              seen == seen_stocks[scans[scan_index]]
              target == batch'.stocks
          IN /\ batch'.scan = scans[scan_index]
             /\ StrictlyIncreasing(target)
             /\ ToSet(target) = IF always_notify THEN items ELSE items \ seen
             /\ batch'.discord = (enable_discord /\ target # <<>>)
             /\ batch'.telegram = (enable_telegram /\ target # <<>>)]_vars
C5_Witness ==
    /\ ~always_notify /\ enable_telegram
    /\ batch.scan = scans[1] /\ batch.stocks = <<2>>
    /\ ~batch.discord /\ batch.telegram
    /\ fetched.stocks = <<1, 2>>

\* C6: between resets a scan's seen set only grows, and a successful run
\* leaves it equal to the seen set before the run united with the items
\* the run returned.
C6_SeenGrowsByRunItems ==
    [][\A n \in ScanNames :
          IF RanScanOk /\ n = scans[scan_index]
          THEN /\ seen_stocks'[n] = seen_stocks[n] \cup ToSet(fetched'.stocks)
               /\ seen_stocks[n] \subseteq seen_stocks'[n]
          ELSE last_reset_date' = last_reset_date =>
                  seen_stocks[n] \subseteq seen_stocks'[n]]_vars
C6_Witness ==
    /\ batch.scan = scans[2]
    /\ fetched.stocks = <<2>> /\ ~fetched.maintenance
    /\ seen_stocks[scans[2]] = {1, 2}

\* C7: when every call of the source signals maintenance, run_scan_and_fetch
\* with max_retries = n >= 1 makes exactly n calls with a retry sleep
\* between consecutive calls and none after the last, and returns an empty
\* list with the maintenance flag, without raising.
AlwaysMaintenance == \A k \in DOMAIN source : source[k] = Maintenance
C7_MaintenanceExhaustion ==
    (fn = "run_scan_and_fetch" /\ retries >= 1 /\ AlwaysMaintenance) =>
        /\ Count(fetched.events, "call") = retries
        /\ Count(fetched.events, "sleep") = retries - 1
        /\ fetched.events =
              [i \in 1..(2 * retries - 1) |-> IF i % 2 = 1 THEN "call" ELSE "sleep"]
        /\ fetched.stocks = <<>>
        /\ fetched.maintenance
        /\ ~fetched.raised
C7_Witness ==
    /\ fn = "run_scan_and_fetch" /\ retries = 3 /\ AlwaysMaintenance
    /\ fetched.events = <<"call", "sleep", "call", "sleep", "call">>
    /\ fetched.maintenance

\* C8: a run that ends with the maintenance flag leaves every seen set and
\* every persisted record as they were, sends no notification, and the
\* loop (live or simulation) goes on to the next configured scan.
C8_MaintenanceLeavesSeenAlone ==
    [][RanScanMaintenance =>
          /\ seen_stocks' = seen_stocks
          /\ files' = files
          /\ batch'.stocks = <<>> /\ ~batch'.discord /\ ~batch'.telegram
          /\ IF scan_index < Len(scans)
             THEN pc' = pc /\ scan_index' = scan_index + 1
             ELSE pc' = IF pc = "scan" THEN "after"
                        ELSE IF run_index < simulation_runs THEN "sim" ELSE "exit"]_vars
C8_Witness ==
    /\ pc = "scan" /\ scan_index = 2
    /\ fetched.maintenance
    /\ batch = Quiet(scans[1])
    /\ seen_stocks[scans[1]] = {1}
    /\ files[ScanKey(scans[1])] = JsonFile(<<1>>)

\* C9: next_trading_start of a Friday timestamp after the window end is the
\* window start of the Monday that follows, and no result of
\* next_trading_start is on a Saturday or a Sunday.
C9_FridayAfterEndGivesMonday ==
    fn = "next_trading_start" =>
        /\ Weekday(DateOf(result)) < 5
        /\ (Weekday(DateOf(arg)) = 4 /\ TimeOf(arg) > trading_end) =>
              result = Combine(DateOf(arg) + 3, trading_start)
C9_Witness ==
    /\ fn = "next_trading_start"
    /\ Weekday(DateOf(arg)) = 4 /\ TimeOf(arg) > trading_end
    /\ Weekday(DateOf(result)) = 0 /\ DateOf(result) = DateOf(arg) + 3

\* C10 (as claimed): next_trading_start(after) is today's window start only
\* when `after` precedes it; for `after` at or past today's start it is the
\* start of a later date; the result is always strictly later than `after`.
C10_ResultStrictlyAfter ==
    fn = "next_trading_start" =>
        /\ DateOf(result) = DateOf(arg) => TimeOf(arg) < trading_start
        /\ TimeOf(arg) >= trading_start => DateOf(result) > DateOf(arg)
        /\ result > arg
\* C11: the daily reset is idempotent per calendar date: when the reset
\* path is reached on a date equal to last_reset_date, no seen set is
\* cleared, no record is written and last_reset_date is unchanged; the seen
\* sets are cleared at most once per calendar date.
C11_ResetIdempotentPerDate ==
    /\ [][(pc = "reset" /\ iterations' = iterations + 1
            /\ DateOf(clock) = last_reset_date)
          => /\ seen_stocks' = seen_stocks
             /\ files' = files
             /\ last_reset_date' = last_reset_date]_vars
    /\ [](cleared <= 1)
\* the path was reached again on the date of the last reset with a seen
\* set that a run had filled since, and left it alone
C11_Witness ==
    /\ pc = "reset" /\ branch = "kept" /\ iterations >= 2
    /\ DateOf(now) = last_reset_date
    /\ \E n \in ScanNames : seen_stocks[n] # {}

\* the records save_seen leaves when it runs to its end
WellFormed(file) == \E stocks \in SUBSET Symbols : file = save_seen(stocks)

\* C12: persistence round trip: a save_seen(S, path) that completes without
\* a write error, followed by load_seen(path), returns exactly S.
C12_SaveThenLoadReturnsSaved ==
    [][(pc = "saving" /\ pc' = "store" /\ committed'.valid)
        => load_seen(files'[StoreKey]) = Loaded(saving.stocks)]_vars
\* every symbol was saved, the save ran to its end and the record was
\* loaded after it: the load returned every symbol
C12_Witness ==
    /\ pc = "store" /\ committed = [valid |-> TRUE, stocks |-> Symbols]
    /\ loaded.how = "reader" /\ loaded.during = NoSave
    /\ loaded.file = files[StoreKey]
    /\ Len(loaded.file.text) = 2 * NumSymbols + 1
    /\ ~loaded.raised /\ ~loaded.stray /\ loaded.seen = Symbols

\* C13 (as claimed): load_seen never raises: for a record that does not
\* exist, cannot be read, or is corrupt in any way (not valid JSON, not
\* decodable text, or valid JSON that is not an array of strings) it
\* returns the empty set.
C13_LoadNeverRaises ==
    loaded.how # "none"
    => /\ ~loaded.raised
       /\ ~WellFormed(loaded.file) => (loaded.seen = {} /\ ~loaded.stray)

\* C14 (as claimed): save_seen replaces the record atomically with respect
\* to readers: a reader that loads the record while a save is under way
\* sees the complete previous content or the complete new content, never an
\* empty or partially written record.
C14_ReaderSeesOldOrNew ==
    (loaded.how = "reader" /\ loaded.during.active)
    => loaded.file \in {loaded.during.previous, TextFile(loaded.during.text)}

\* C15 (as claimed): if the process is terminated at any point, including
\* in the middle of a save, the record on disk equals the seen set of the
\* last reconciliation (or reset) that was completed, and a restarted
\* process loads that set, never an empty or partial one.
C15_TerminationKeepsLastSaved ==
    /\ (pc = "down" /\ committed.valid)
       => files[StoreKey] = save_seen(committed.stocks)
    /\ (loaded.how = "start" /\ committed.valid)
       => (~loaded.raised /\ ~loaded.stray /\ loaded.seen = committed.stocks)

\* C16 (as claimed): an unexpected exception in one scan, other than the
\* maintenance signal, does not end the loop: the remaining scans of the
\* slot still run and the loop goes on to the next slot.
C16_ScanExceptionDoesNotEndLoop == fetched.raised => pc # "crashed"

\* C17: a failing notification delivery never aborts the slot: the scan
\* whose notification failed still has its items folded into the seen set
\* and persisted, and the loop is at the next scan or past the last one.
C17_DeliveryFailureDoesNotAbort ==
    (batch.undelivered # {} /\ ~fetched.raised)
    => /\ pc \in {"scan", "after", "sim", "exit"}
       /\ ToSet(fetched.stocks) \subseteq seen_stocks[batch.scan]
       /\ files[ScanKey(batch.scan)] = save_seen(seen_stocks[batch.scan])
       /\ (pc = "scan" => scans[scan_index] # batch.scan)
\* the first scan's batch went to both senders, both posts failed, and the
\* live loop stands before the second scan with the items seen and saved
C17_Witness ==
    /\ ~simulate /\ pc = "scan" /\ scan_index = 2
    /\ batch.scan = scans[1] /\ batch.stocks # <<>>
    /\ batch.undelivered = Channels
    /\ ToSet(batch.stocks) \subseteq seen_stocks[scans[1]]
    /\ files[ScanKey(scans[1])] = save_seen(seen_stocks[scans[1]])

\* C18: the simulation and the live loop reconcile identically: from the
\* same seen set, the same source result and the same always_notify, a live
\* run leaves what the simulation's body would and a simulation run leaves
\* what the live body would: the same batch, seen set and record.
C18_SimulationReconcilesAsLive ==
    [][RanScan =>
         \E failing \in {batch'.undelivered} :
         \E other \in { IF pc = "scan"
                         THEN SimRun(fetched', scans[scan_index], failing)
                         ELSE LiveRun(fetched', scans[scan_index], failing) } :
            /\ batch' = other.batch
            /\ seen_stocks'[scans[scan_index]] = other.seen
            /\ files'[ScanKey(scans[scan_index])] = other.file]_vars
\* a live run of the first scan found symbol 2 new beside symbol 1 and
\* all was delivered
C18_Witness ==
    /\ ~simulate /\ pc = "scan" /\ scan_index = 2
    /\ batch.scan = scans[1] /\ batch.stocks = <<2>> /\ batch.undelivered = {}
    /\ fetched.stocks = <<1, 2>>
    /\ seen_stocks[scans[1]] = {1, 2}
    /\ files[ScanKey(scans[1])] = JsonFile(<<1, 2>>)

\* C19 (as claimed): within one scan's successful run the run's items are
\* folded into the seen set and the updated set is persisted before any
\* notification for that run is dispatched.
C19_PersistedBeforeNotified ==
    \A i \in DOMAIN batch.order : \A j \in DOMAIN batch.order :
        (batch.order[i] \in {"fold", "save"} /\ batch.order[j] \in Channels) => i < j

\* C20: slot alignment: the scans are executed only from an iteration whose
\* `now` is a weekday, with its time of day in [start, end], on a slot
\* boundary (minute in {5, 20, 35, 50}, second 0); in every other case the
\* iteration only sleeps and runs no scan.
C20_ScansRunOnlyOnSlot ==
    LET tod == now % (24 * 60 * 60 * TicksPerSecond)
        day == now \div (24 * 60 * 60 * TicksPerSecond)
        minute == (tod \div (60 * TicksPerSecond)) % 60
        second == (tod \div TicksPerSecond) % 60
        aligned == /\ day % 7 \notin {5, 6}
                   /\ tod >= (9 * 60 + 20) * 60 * TicksPerSecond
                   /\ tod <= (15 * 60 + 20) * 60 * TicksPerSecond
                   /\ minute \in {5, 20, 35, 50}
                   /\ second = 0
    IN /\ pc \in {"scan", "after"} => branch = "run"
       /\ branch = "run" => aligned
       /\ branch \in {"weekend", "outside", "wait"}
          => (~aligned /\ pc \in {"loop", "crashed"})
\* a sleep ended on a slot boundary and the iteration that followed ran
\* the scans
C20_Witness ==
    /\ branch = "run" /\ pc = "after" /\ iterations >= 2
    /\ MinuteOf(now) \in slot_minutes /\ SecondOf(now) = 0

\* C21: in the live loop the scans of a slot boundary are started at most once
\* for that boundary of that day, however long the scans take (no time at all
\* included) and whenever the sleeps return.  The clock never goes back, so a
\* second start for a boundary would directly follow the first one.
C21_AtMostOncePerSlot == slot_runs <= 1

\* two boundaries in a row each had their scans run once, the second run
\* taking no time at all
C21_Witness ==
    /\ pc = "after" /\ iterations = 3 /\ clock = now
    /\ slot_done = Combine(3, Time(15, 5)) /\ slot_runs = 1

\* C22: between the runs and resets of a process, the record of every scan
\* whose last save in this process did not fail holds exactly that scan's
\* in-memory seen set.
C22_WriteThrough ==
    pc = "write" =>
      \A n \in synced :
         /\ files[ScanKey(n)] = JsonFile(Sorted(seen_stocks[n]))
         /\ load_seen(files[ScanKey(n)]).seen = seen_stocks[n]

\* both scans have saved, the first one twice, and the seen set of the
\* first holds every symbol
C22_Witness ==
    /\ pc = "write" /\ iterations = 3 /\ synced = ScanNames
    /\ seen_stocks[scans[1]] = Symbols /\ branch = "saved"

\* C23: a save that hits a write error does not end the loop and leaves the
\* memory as the run made it: after the run the in-memory seen set is the
\* old one joined with what the run returned, and every run's delta is
\* what the page holds beyond the in-memory set, whatever the record holds.
C23_WriteFailureKeepsMemory ==
    [][(pc = "write" /\ iterations' = iterations + 1 /\ ~fetched'.raised
          /\ batch'.scan \in ScanNames /\ branch' \in {"saved", "failed"})
         => /\ branch' = "failed" => pc' = "write"
            /\ seen_stocks'[batch'.scan] =
                   seen_stocks[batch'.scan] \cup ToSet(fetched'.stocks)
            /\ batch'.stocks = Sorted(ToSet(fetched'.stocks) \ seen_stocks[batch'.scan])]_vars

\* the first scan's save failed twice, its record was never written, and
\* its second run reports nothing of a page it had already seen
C23_Witness ==
    /\ pc = "write" /\ iterations = 3 /\ branch = "failed"
    /\ batch.scan = scans[1] /\ batch.stocks = <<>> /\ fetched.stocks # <<>>
    /\ ~files[ScanKey(scans[1])].exists

\* the slot boundaries of a date: 09:20, 09:35, ... 15:20
SlotBoundaries(date) ==
    { Combine(date, trading_start + k * SlotInterval) :
        k \in 0..((trading_end - trading_start) \div SlotInterval) }

\* C24 (as claimed): for `current` with a time of day inside the window,
\* next_slot(current) is the smallest slot boundary of the same day that is
\* strictly later than `current` when there is one, and otherwise the start
\* of a later trading day; in all cases it is strictly later than `current`.
C24_NextSlotIsSmallestLater ==
    (fn = "next_slot" /\ TimeOf(arg) >= trading_start /\ TimeOf(arg) <= trading_end) =>
        LET later == { b \in SlotBoundaries(DateOf(arg)) : b > arg }
        IN /\ result > arg
           /\ IF later # {}
              THEN result \in later /\ \A b \in later : result <= b
              ELSE /\ DateOf(result) > DateOf(arg)
                   /\ TimeOf(result) = trading_start
                   /\ Weekday(DateOf(result)) < 5

\* C25 (as claimed): the simulation goes through simulation_runs iterations,
\* each running every scan once in configured order, and then exits: it does
\* not end before the last scan of the last iteration, makes no live
\* iteration and no daily reset.
C25_SimulationRunsToItsEnd ==
    simulate =>
        /\ pc \in {"sim", "exit"}
        /\ run_index \in 1..simulation_runs /\ scan_index \in 1..Len(scans)
        /\ pc = "exit" => (run_index = simulation_runs /\ scan_index = Len(scans))
        /\ iterations = 0 /\ branch = "none" /\ slot_runs = 0
        /\ last_reset_date = None /\ cleared = 0

\* C26 (as claimed): every sleep target the live loop computes is at or
\* after the `now` it is computed from: next_trading_start(now) on a weekend
\* or outside the window, next_slot(now) off a boundary and after a slot's
\* scans; so no sleep is asked for a negative time and the loop never ends
\* on one.
C26_SleepTargetsNotInPast ==
    /\ pc # "crashed"
    /\ pc = "after" => next_slot(clock) >= clock
    /\ (pc = "loop" /\ (Weekday(DateOf(clock)) >= 5 \/ ~InWindow(clock)))
          => next_trading_start(clock) >= clock
    /\ (pc = "loop" /\ Weekday(DateOf(clock)) < 5 /\ InWindow(clock) /\ ~OnSlot(clock))
          => next_slot(clock) >= clock

\* C27 (as claimed): for two scans with different names, a run of one never
\* changes the other's in-memory seen set nor the other's record, and what
\* a restarted process loads for a scan is what that scan itself saved;
\* also for names that differ only in letter case or in space versus
\* underscore.
C27_ScansAreIndependent ==
    /\ [][(pc = "names" /\ iterations' = iterations + 1 /\ pc' = "names")
            => \A other \in DOMAIN seen_stocks \ {batch'.scan} :
                  /\ seen_stocks'[other] = seen_stocks[other]
                  /\ files'[ScanKey(other)] = files[ScanKey(other)]]_vars
    /\ [](branch = "restart" => \A n \in DOMAIN seen_stocks : seen_stocks[n] = returned[n])

====
